---------------------------- MODULE Spec2Model ----------------------------
(***************************************************************************)
(* Model of webpack.config.js: the module's load-time statements (dotenv,  *)
(* the environment destructuring, the module-level object literals, the    *)
(* glob scan) and the exported resolver (env, argv) => config.             *)
(*                                                                         *)
(* JavaScript objects live on a heap: an object is a function from its     *)
(* own keys to values, an array is a sequence, a reference is a heap id.   *)
(* A key whose value is the JavaScript `undefined` is present with the     *)
(* value Undefined; an absent key is not in the object's DOMAIN.           *)
(* Paths are sequences of segments.                                        *)
(***************************************************************************)
EXTENDS Naturals, Sequences, FiniteSets

VARIABLES
    processEnv,  \* process.env, restricted to WDS_HOST and WDS_PORT
    fs,          \* the filesystem: a set of [path, dir] entries
    loaded,      \* whether webpack.config.js has been required
    WDS,         \* the module constants WDS_HOST / WDS_PORT (line 29)
    heap,        \* heap id -> object (the live objects)
    cur,         \* <<>> or <<the most recently returned config>>
    kept,        \* <<>> or <<an earlier returned config the caller retained>>
    atLoad,      \* history: process.env and the filesystem when the module loaded
    nwrites      \* how many writes consumers made to returned configs

vars == <<processEnv, fs, loaded, WDS, heap, cur, kept, atLoad, nwrites>>

---------------------------------------------------------------------------
\* Bounds of the model.

\* Most writes consumers make to returned configs in one behaviour.
MaxWrites == 2

---------------------------------------------------------------------------
\* Values.

\* The JavaScript value `undefined` (an unset environment variable).
Undefined == "undefined"

\* Values WDS_HOST / WDS_PORT take in the shell environment or the .env file.
Hosts == {Undefined, "localhost"}
Ports == {Undefined, "8080"}

\* The contents the .env file may have when the module loads: no file, or a
\* file that sets both variables.
DotenvFiles ==
    { [WDS_HOST |-> Undefined, WDS_PORT |-> Undefined],
      [WDS_HOST |-> "localhost", WDS_PORT |-> "8080"] }

\* Mode values the build tool passes as `env`; "staging" is an unrecognized one.
Modes == {"production", "development", "staging"}

\* Values of the unused second argument.
Argvs == {"argv:{}", "argv:{watch}"}

\* {} : an object with no own keys.
EmptyObject == [k \in {} |-> TRUE]

\* o with o[key] = v, as the JavaScript assignment o.key = v leaves it.
Put(o, key, v) == [k \in (DOMAIN o) \cup {key} |-> IF k = key THEN v ELSE o[k]]

\* __dirname of webpack.config.js.
Dirname == <<"repo">>

\* path.join on segment sequences.
join(dir, segments) == dir \o segments

\* Every entry the filesystem may hold. The source tree's directories, the
\* HTML template and a build artefact are always there; src/index.js comes
\* and goes.
FixedEntries ==
    { [path |-> <<"repo", "src">>, dir |-> TRUE],
      [path |-> <<"repo", "src", "templates">>, dir |-> TRUE],
      [path |-> <<"repo", "src", "templates", "index.html">>, dir |-> FALSE],
      [path |-> <<"repo", "dist">>, dir |-> TRUE],
      [path |-> <<"repo", "dist", "bundle.js">>, dir |-> FALSE] }

VolatileEntries ==
    { [path |-> <<"repo", "src", "index.js">>, dir |-> FALSE] }

\* p lies strictly below directory root.
IsUnder(root, p) ==
    /\ Len(p) > Len(root)
    /\ SubSeq(p, 1, Len(root)) = root

\* glob.sync(`${root}/**/*`, { nodir: true }) on filesystem fsys: the paths of
\* the non-directory entries below root (as a set: the claims do not depend on
\* glob's ordering of its result).
glob(fsys, root) ==
    { e.path : e \in { x \in fsys : IsUnder(root, x.path) /\ ~x.dir } }

\* dotenv's config(): a variable of the file is set in process.env unless
\* process.env already defines it.
dotenvConfig(env, file) ==
    [k \in DOMAIN env |-> IF env[k] # Undefined THEN env[k] ELSE file[k]]

---------------------------------------------------------------------------
\* The module-level objects and their heap ids.

EntryId == 1
OutputId == 2
PluginsId == 3
OptimizeId == 4
DevServerId == 5

ModuleLevelIds == {EntryId, OutputId, PluginsId, OptimizeId, DevServerId}

\* A slip: every mode but 'development' counts as production.
isProduction_notDevelopment(env) == env # "development"

isProduction(env) == env = "production"

entry == [index |-> "./src/index.js"]

output == [filename |-> "bundle.js", path |-> join(Dirname, <<"dist">>)]

\* MiniCssExtractPlugin.loader, the extraction loader's module path.
MiniCssExtractPlugin_loader == "mini-css-extract-plugin/loader"

\* A slip: the head of the style chain is always the style-injection loader.
webpackModule_styleLoaderAlways(env) ==
    [rules |-> <<
        [test |-> "/\\.m?jsx?$/",
         exclude |-> <<"/(node_modules)/">>,
         use |-> <<
            [loader |-> "babel-loader",
             options |-> [presets |-> <<"@babel/preset-env">>]] >>],
        [test |-> <<"/\\.s?css$/", "/\\.sass$/">>,
         exclude |-> <<"/node_modules/">>,
         use |-> <<
            [loader |-> "style-loader",
             options |-> [sourceMap |-> IF isProduction(env) THEN FALSE ELSE TRUE]],
            [loader |-> "css-loader",
             options |-> [sourceMap |-> IF isProduction(env) THEN FALSE ELSE TRUE]],
            [loader |-> "postcss-loader",
             options |-> [plugins |-> "() => [Autoprefixer()]"]],
            [loader |-> "sass-loader",
             options |-> [sourceMap |-> IF isProduction(env) THEN FALSE ELSE TRUE]] >>]
    >>]

\* A slip: sass-loader's source-map option is left on in every mode.
webpackModule_sassMapOn(env) ==
    [rules |-> <<
        [test |-> "/\\.m?jsx?$/",
         exclude |-> <<"/(node_modules)/">>,
         use |-> <<
            [loader |-> "babel-loader",
             options |-> [presets |-> <<"@babel/preset-env">>]] >>],
        [test |-> <<"/\\.s?css$/", "/\\.sass$/">>,
         exclude |-> <<"/node_modules/">>,
         use |-> <<
            [loader |-> IF isProduction(env) THEN MiniCssExtractPlugin_loader
                                             ELSE "style-loader",
             options |-> [sourceMap |-> IF isProduction(env) THEN FALSE ELSE TRUE]],
            [loader |-> "css-loader",
             options |-> [sourceMap |-> IF isProduction(env) THEN FALSE ELSE TRUE]],
            [loader |-> "postcss-loader",
             options |-> [plugins |-> "() => [Autoprefixer()]"]],
            [loader |-> "sass-loader",
             options |-> [sourceMap |-> TRUE]] >>]
    >>]

webpackModule(env) ==
    [rules |-> <<
        [test |-> "/\\.m?jsx?$/",
         exclude |-> <<"/(node_modules)/">>,
         use |-> <<
            [loader |-> "babel-loader",
             options |-> [presets |-> <<"@babel/preset-env">>]] >>],
        [test |-> <<"/\\.s?css$/", "/\\.sass$/">>,
         exclude |-> <<"/node_modules/">>,
         use |-> <<
            [loader |-> IF isProduction(env) THEN MiniCssExtractPlugin_loader
                                             ELSE "style-loader",
             options |-> [sourceMap |-> IF isProduction(env) THEN FALSE ELSE TRUE]],
            [loader |-> "css-loader",
             options |-> [sourceMap |-> IF isProduction(env) THEN FALSE ELSE TRUE]],
            [loader |-> "postcss-loader",
             options |-> [plugins |-> "() => [Autoprefixer()]"]],
            [loader |-> "sass-loader",
             options |-> [sourceMap |-> IF isProduction(env) THEN FALSE ELSE TRUE]] >>]
    >>]

\* A slip: the purge plugin is listed before the extraction plugin.
plugins_purgeFirst(fsys) ==
    << [name |-> "HtmlWebpackPlugin",
        options |-> [title |-> "Webpack Demo", template |-> "src/templates/index.html"]],
       [name |-> "PurgecssPlugin",
        options |-> [paths |-> glob(fsys, join(Dirname, <<"src">>))]],
       [name |-> "MiniCssExtractPlugin",
        options |-> [filename |-> "[name].css"]] >>

\* The plugins array, evaluated on filesystem fsys.
plugins(fsys) ==
    << [name |-> "HtmlWebpackPlugin",
        options |-> [title |-> "Webpack Demo", template |-> "src/templates/index.html"]],
       [name |-> "MiniCssExtractPlugin",
        options |-> [filename |-> "[name].css"]],
       [name |-> "PurgecssPlugin",
        options |-> [paths |-> glob(fsys, join(Dirname, <<"src">>))]] >>

optimize ==
    [minimizer |-> << [name |-> "OptimizeCSSAssetsPlugin", options |-> EmptyObject] >>]

\* A slip: the history-API fallback is switched off.
devServer_noFallback(WDS_HOST, WDS_PORT) ==
    [host |-> WDS_HOST,
     port |-> WDS_PORT,
     open |-> FALSE,
     historyApiFallback |-> FALSE,
     overlay |-> TRUE,
     contentBase |-> join(Dirname, <<"dist">>)]

devServer(WDS_HOST, WDS_PORT) ==
    [host |-> WDS_HOST,
     port |-> WDS_PORT,
     open |-> FALSE,
     historyApiFallback |-> TRUE,
     overlay |-> TRUE,
     contentBase |-> join(Dirname, <<"dist">>)]

---------------------------------------------------------------------------
\* The objects one call of the exported function allocates: the returned
\* object, the object webpackModule(env) returns and the one {} literal the
\* call evaluates.

\* Where the allocator may place a call's three objects. At most one config
\* is still held when a call allocates, so one of two places is always free.
Places == {5, 8}

rootRef(b) == b + 1
\* A slip: the rules structure is one object, handed out by every call.
moduleRef_memoised(b) == 7

moduleRef(b) == b + 2
emptyRef(b) == b + 3

FreshIds(b) == {rootRef(b), moduleRef(b), emptyRef(b)}

\* Allocation: the objects a call creates are placed where no live object
\* is (a place's objects are live exactly when its returned object is).
freshBase(h) ==
    CHOOSE b \in Places :
        /\ rootRef(b) \notin DOMAIN h
        /\ \A c \in Places : rootRef(c) \notin DOMAIN h => b <= c

\* A slip: the dev-server block is handed out in every mode.
module_exports_devServerAlways(env, argv, n) ==
    [mode |-> env,
     entry |-> EntryId,
     output |-> OutputId,
     plugins |-> PluginsId,
     module |-> moduleRef(n),
     optimization |-> IF isProduction(env) THEN OptimizeId ELSE emptyRef(n),
     devServer |-> DevServerId,
     devtool |-> IF isProduction(env) THEN "false" ELSE "cheal-module-eval-source-map"]

\* The object a call returns, its fresh objects placed at n; its object-valued
\* properties are heap ids.
module_exports(env, argv, n) ==
    [mode |-> env,
     entry |-> EntryId,
     output |-> OutputId,
     plugins |-> PluginsId,
     module |-> moduleRef(n),
     optimization |-> IF isProduction(env) THEN OptimizeId ELSE emptyRef(n),
     devServer |-> IF isProduction(env) THEN emptyRef(n) ELSE DevServerId,
     \* the boolean false is written "false": the property is otherwise a string
     devtool |-> IF isProduction(env) THEN "false" ELSE "cheal-module-eval-source-map"]

\* A slip: the dev-server block is built inside the exported function, from
\* the environment of the call.
heapAfterCall_envAtCall(h, env, argv, n) ==
    [id \in (DOMAIN h) \cup FreshIds(n) |->
        IF id = rootRef(n) THEN module_exports(env, argv, n)
        ELSE IF id = moduleRef(n) THEN webpackModule(env)
        ELSE IF id = emptyRef(n) THEN EmptyObject
        ELSE IF id = DevServerId THEN devServer(processEnv.WDS_HOST, processEnv.WDS_PORT)
        ELSE h[id]]

\* A slip: a production call pushes the CSS minimizer onto the module-level
\* plugins array.
heapAfterCall_pushes(h, env, argv, n) ==
    [id \in (DOMAIN h) \cup FreshIds(n) |->
        IF id = rootRef(n) THEN module_exports(env, argv, n)
        ELSE IF id = moduleRef(n) THEN webpackModule(env)
        ELSE IF id = emptyRef(n) THEN EmptyObject
        ELSE IF id = PluginsId /\ isProduction(env)
             THEN Append(h[id], [name |-> "OptimizeCSSAssetsPlugin", options |-> EmptyObject])
        ELSE h[id]]

\* The heap after a call module_exports(env, argv) that places its objects at
\* n: the call allocates three objects and writes no object that existed
\* before it.
heapAfterCall(h, env, argv, n) ==
    [id \in (DOMAIN h) \cup FreshIds(n) |->
        IF id = rootRef(n) THEN module_exports(env, argv, n)
        ELSE IF id = moduleRef(n) THEN webpackModule(env)
        ELSE IF id = emptyRef(n) THEN EmptyObject
        ELSE h[id]]

\* The configuration a consumer reads through root object `root` of heap h.
Deref(h, root) ==
    [mode |-> h[root].mode,
     entry |-> h[h[root].entry],
     output |-> h[h[root].output],
     plugins |-> h[h[root].plugins],
     module |-> h[h[root].module],
     optimization |-> h[h[root].optimization],
     devServer |-> h[h[root].devServer],
     devtool |-> h[root].devtool]

\* The heap ids a config with root object `root` reaches.
Refs(h, root) ==
    {root, h[root].entry, h[root].output, h[root].plugins, h[root].module,
     h[root].optimization, h[root].devServer}

\* The objects still reachable: the module's own and those of the configs held.
Live(h, held) ==
    ModuleLevelIds \cup UNION { Refs(h, held[i].root) : i \in DOMAIN held }

---------------------------------------------------------------------------
\* The state machine.

TypeOK ==
    /\ processEnv \in [WDS_HOST : Hosts, WDS_PORT : Ports]
    /\ fs \subseteq FixedEntries \cup VolatileEntries
    /\ loaded \in BOOLEAN
    /\ nwrites \in 0..MaxWrites
    /\ Len(cur) <= 1
    /\ Len(kept) <= 1

\* Before webpack.config.js is required: any shell environment, any source tree.
Init ==
    /\ processEnv \in [WDS_HOST : Hosts, WDS_PORT : Ports]
    /\ \E vol \in SUBSET VolatileEntries : fs = FixedEntries \cup vol
    /\ loaded = FALSE
    /\ WDS = [WDS_HOST |-> Undefined, WDS_PORT |-> Undefined]
    /\ heap = <<>>
    /\ cur = <<>>
    /\ kept = <<>>
    /\ atLoad = <<>>
    /\ nwrites = 0

\* require('./webpack.config.js'): lines 19-122 run once, top to bottom.
Load ==
    /\ ~loaded
    /\ \E file \in DotenvFiles :
        LET env2 == dotenvConfig(processEnv, file) IN
        /\ processEnv' = env2
        /\ WDS' = [WDS_HOST |-> env2.WDS_HOST, WDS_PORT |-> env2.WDS_PORT]
        /\ heap' = [id \in ModuleLevelIds |->
                      IF id = EntryId THEN entry
                      ELSE IF id = OutputId THEN output
                      ELSE IF id = PluginsId THEN plugins(fs)
                      ELSE IF id = OptimizeId THEN optimize
                      ELSE devServer(env2.WDS_HOST, env2.WDS_PORT)]
        /\ atLoad' = <<[env |-> env2, fs |-> fs]>>
    /\ loaded' = TRUE
    /\ UNCHANGED <<fs, cur, kept, nwrites>>

\* The process environment changes (a variable is set, changed or unset).
SetEnv ==
    /\ \E k \in {"WDS_HOST", "WDS_PORT"} :
       \E v \in (IF k = "WDS_HOST" THEN Hosts ELSE Ports) :
        /\ v # processEnv[k]
        /\ processEnv' = [processEnv EXCEPT ![k] = v]
    /\ UNCHANGED <<fs, loaded, WDS, heap, cur, kept, atLoad, nwrites>>

\* A source file is created.
WriteFile ==
    /\ \E e \in VolatileEntries \ fs : fs' = fs \cup {e}
    /\ UNCHANGED <<processEnv, loaded, WDS, heap, cur, kept, atLoad, nwrites>>

\* A source file is deleted.
RemoveFile ==
    /\ \E e \in VolatileEntries \cap fs : fs' = fs \ {e}
    /\ UNCHANGED <<processEnv, loaded, WDS, heap, cur, kept, atLoad, nwrites>>

\* The build tool calls the exported function with (env, argv). `config` is
\* the returned structure as it reads when the call returns. `keep` says
\* whether the caller retains this result beyond the next call (in place of
\* the one it retained before); a retained config is recorded with the
\* arguments, environment and filesystem of its call. The results the caller
\* no longer holds are released before the call allocates.
ResolveWith(env, argv, keep) ==
    LET before == IF keep THEN <<>> ELSE kept
        live0 == Live(heap, before)
        h1 == [id \in live0 |-> heap[id]]
        n == freshBase(h1)
        h2 == heapAfterCall(h1, env, argv, n)
        config == Deref(h2, rootRef(n))
    IN  /\ loaded
        /\ cur' = <<[root |-> rootRef(n), config |-> config]>>
        /\ kept' = IF keep
                   THEN <<[root |-> rootRef(n), config |-> config,
                           argv |-> argv, env |-> processEnv, fs |-> fs]>>
                   ELSE kept
        /\ heap' = h2
        /\ UNCHANGED <<processEnv, fs, loaded, WDS, atLoad, nwrites>>

Resolve ==
    \E env \in Modes, argv \in Argvs, keep \in BOOLEAN : ResolveWith(env, argv, keep)

\* What a consumer can write through a returned config.
ConfigParts == {"entry", "output", "plugins", "module", "optimization", "devServer"}

\* The plugin instance a consumer pushes.
ConsumerPlugin == [name |-> "ConsumerPlugin", options |-> EmptyObject]

\* The consumer of the latest returned config writes to one of its parts:
\* config.plugins.push(...) on the array, config[part].touched = true on an
\* object.
Mutate ==
    /\ cur # <<>>
    /\ nwrites < MaxWrites
    /\ \E part \in ConfigParts :
        LET id == heap[cur[1].root][part] IN
        heap' = [heap EXCEPT ![id] = IF part = "plugins"
                                       THEN Append(@, ConsumerPlugin)
                                       ELSE Put(@, "touched", TRUE)]
    /\ nwrites' = nwrites + 1
    /\ UNCHANGED <<processEnv, fs, loaded, WDS, cur, kept, atLoad>>

Next ==
    \/ Load
    \/ SetEnv
    \/ WriteFile
    \/ RemoveFile
    \/ Resolve

\* Module load, changes of the environment and of the source tree, and
\* resolver calls; returned configs are read, never written.
Spec == Init /\ [][Next]_vars

NextConsumer ==
    \/ Load
    \/ Resolve
    \/ Mutate

\* Module load and resolver calls under a fixed environment, with consumers
\* that write to the configs they were handed.
SpecConsumer == Init /\ [][NextConsumer]_vars

---------------------------------------------------------------------------
\* Reading a returned config.

Populated(o) == DOMAIN o # {}
Empty(o) == DOMAIN o = {}

\* The loader chain of the CSS / SASS / SCSS rule.
CssUse(c) == c.module.rules[2].use

\* The loader steps of config c that carry a source-map option, as
\* <<rule, step>> positions.
SourceMapSteps(c) ==
    { p \in (DOMAIN c.module.rules) \X (1..4) :
        /\ p[2] \in DOMAIN c.module.rules[p[1]].use
        /\ "sourceMap" \in DOMAIN c.module.rules[p[1]].use[p[2]].options }

SourceMapOf(c, p) == c.module.rules[p[1]].use[p[2]].options.sourceMap

\* The plugin names of a list of plugin instances, in order.
Names(list) == [i \in DOMAIN list |-> list[i].name]

HasPlugin(list, name) == \E i \in DOMAIN list : list[i].name = name

\* The minimizer list of an optimization block ({} has none).
Minimizers(o) == IF "minimizer" \in DOMAIN o THEN o.minimizer ELSE <<>>

PurgePaths(c) ==
    LET i == CHOOSE k \in DOMAIN c.plugins : c.plugins[k].name = "PurgecssPlugin"
    IN  c.plugins[i].options.paths

SrcDir == join(Dirname, <<"src">>)

Unrecognized(mode) == mode \notin {"production", "development"}

\* A write a consumer made shows in object o.
Touched(o) == "touched" \in DOMAIN o

\* A write a consumer made shows in part `part` of config c.
TouchedPart(c, part) ==
    IF part = "plugins" THEN HasPlugin(c.plugins, "ConsumerPlugin")
                        ELSE Touched(c[part])

---------------------------------------------------------------------------
\* C1. Whatever the mode, exactly one of the returned config's optimization
\* and devServer blocks is populated and the other is an empty object:
\* production has a populated optimization and an empty devServer, every
\* other mode an empty optimization and a populated devServer.
C1_ExactlyOneBlock ==
    cur # <<>> =>
        LET c == cur[1].config IN
        IF c.mode = "production"
        THEN Populated(c.optimization) /\ Empty(c.devServer)
        ELSE Empty(c.optimization) /\ Populated(c.devServer)

\* A production config was retained and an unrecognized mode resolved after it.
C1_Witness ==
    /\ kept # <<>> /\ cur # <<>>
    /\ kept[1].config.mode = "production"
    /\ Populated(kept[1].config.optimization) /\ Empty(kept[1].config.devServer)
    /\ cur[1].config.mode = "staging"
    /\ Empty(cur[1].config.optimization) /\ Populated(cur[1].config.devServer)

---------------------------------------------------------------------------
\* C2 as stated. No part of a returned config is shared with the config of
\* another call, and no write a consumer made to an earlier config shows in a
\* config as it is returned.
C2_NothingShared ==
    (kept # <<>> /\ cur # <<>> /\ kept[1].root # cur[1].root) =>
        /\ Refs(heap, kept[1].root) \cap Refs(heap, cur[1].root) = {}
        /\ \A part \in ConfigParts : ~TouchedPart(cur[1].config, part)

\* The parts of a config that its call created.
FreshOf(h, root) == Refs(h, root) \ ModuleLevelIds

\* C2, amended. Each call creates only the returned object, its `module`
\* structure and the one empty block ({}); two configs never share those, and
\* no consumer's write to an earlier config shows in them when a config is
\* returned. `entry`, `output` and `plugins` of every config, `optimization`
\* of every production config and `devServer` of every other config are the
\* module-level objects, the same ones in every call.
C2_OnlyFreshPartsUnshared ==
    (kept # <<>> /\ cur # <<>> /\ kept[1].root # cur[1].root) =>
        LET k == heap[kept[1].root]
            c == heap[cur[1].root]
        IN  /\ FreshOf(heap, kept[1].root) \cap Refs(heap, cur[1].root) = {}
            /\ FreshOf(heap, cur[1].root) \cap Refs(heap, kept[1].root) = {}
            /\ {cur[1].root, c.module} \subseteq FreshOf(heap, cur[1].root)
            /\ ~Touched(cur[1].config.module)
            /\ c.optimization \notin ModuleLevelIds => ~Touched(cur[1].config.optimization)
            /\ c.devServer \notin ModuleLevelIds => ~Touched(cur[1].config.devServer)
            /\ c.entry = k.entry /\ c.output = k.output /\ c.plugins = k.plugins
            /\ (isProduction(c.mode) /\ isProduction(k.mode)) => c.optimization = k.optimization
            /\ (~isProduction(c.mode) /\ ~isProduction(k.mode)) => c.devServer = k.devServer

\* A consumer wrote to the module structure and to the plugins of a retained
\* config; the config of a later call was returned with the pushed plugin in
\* it and with an untouched module structure.
C2_Witness ==
    /\ kept # <<>> /\ cur # <<>> /\ kept[1].root # cur[1].root
    /\ Touched(heap[heap[kept[1].root].module])
    /\ TouchedPart(cur[1].config, "plugins")
    /\ ~Touched(cur[1].config.module)

---------------------------------------------------------------------------
\* C3 as stated. A development config's devServer.host / devServer.port are
\* the values of WDS_HOST / WDS_PORT in effect when the call is made, and the
\* purge plugin's paths are the glob result at that call.
C3_ReadAtCall ==
    kept # <<>> =>
        LET c == kept[1].config IN
        /\ c.mode = "development" =>
            /\ c.devServer.host = kept[1].env.WDS_HOST
            /\ c.devServer.port = kept[1].env.WDS_PORT
        /\ PurgePaths(c) = glob(kept[1].fs, SrcDir)

\* C3, amended. The environment variables are read and the glob scan is made
\* once, when the module is loaded: the module constants hold the values
\* WDS_HOST / WDS_PORT had then (after dotenv), a development config's
\* devServer.host / devServer.port are those values, and the purge plugin's
\* paths are the glob result of then, whatever the environment and the source
\* tree are when the call is made.
C3_ReadAtLoad ==
    /\ loaded => WDS = atLoad[1].env
    /\ kept # <<>> =>
        LET c == kept[1].config IN
        /\ c.mode = "development" =>
            /\ c.devServer.host = atLoad[1].env.WDS_HOST
            /\ c.devServer.port = atLoad[1].env.WDS_PORT
        /\ PurgePaths(c) = glob(atLoad[1].fs, SrcDir)

\* A development config resolved after both variables and the source tree
\* changed since the module was loaded.
C3_Witness ==
    /\ kept # <<>>
    /\ kept[1].config.mode = "development"
    /\ kept[1].env.WDS_HOST # atLoad[1].env.WDS_HOST
    /\ kept[1].env.WDS_PORT # atLoad[1].env.WDS_PORT
    /\ glob(kept[1].fs, SrcDir) # glob(atLoad[1].fs, SrcDir)
    /\ kept[1].config.devServer.host = atLoad[1].env.WDS_HOST

---------------------------------------------------------------------------
CssOnlyPlugins == {"MiniCssExtractPlugin", "PurgecssPlugin", "OptimizeCSSAssetsPlugin"}

\* C4. MiniCssExtractPlugin, PurgecssPlugin and OptimizeCSSAssetsPlugin are
\* production-only: a production config contains them, and the config of any
\* other mode has none of them in `plugins` or `optimization`.
C4_CssPluginsProductionOnly ==
    cur # <<>> =>
        LET c == cur[1].config IN
        IF c.mode = "production"
        THEN /\ HasPlugin(c.plugins, "MiniCssExtractPlugin")
             /\ HasPlugin(c.plugins, "PurgecssPlugin")
             /\ HasPlugin(Minimizers(c.optimization), "OptimizeCSSAssetsPlugin")
        ELSE \A name \in CssOnlyPlugins :
                /\ ~HasPlugin(c.plugins, name)
                /\ ~HasPlugin(Minimizers(c.optimization), name)

---------------------------------------------------------------------------
\* C5. A production config has an empty devServer, exactly one entry in
\* optimization.minimizer, and the extraction loader, not 'style-loader', as
\* the first step of the CSS / SCSS loader chain.
C5_Production ==
    (cur # <<>> /\ cur[1].config.mode = "production") =>
        LET c == cur[1].config IN
        /\ Empty(c.devServer)
        /\ Len(Minimizers(c.optimization)) = 1
        /\ CssUse(c)[1].loader = MiniCssExtractPlugin_loader
        /\ CssUse(c)[1].loader # "style-loader"

\* A production config was resolved after a development one was retained.
C5_Witness ==
    /\ cur # <<>> /\ cur[1].config.mode = "production"
    /\ kept # <<>> /\ kept[1].config.mode = "development"
    /\ Len(cur[1].config.optimization.minimizer) = 1

---------------------------------------------------------------------------
\* C6. A development config has an empty optimization, a true
\* devServer.historyApiFallback, and 'style-loader' as the first step of the
\* CSS / SCSS loader chain.
C6_Development ==
    (cur # <<>> /\ cur[1].config.mode = "development") =>
        LET c == cur[1].config IN
        /\ Empty(c.optimization)
        /\ "historyApiFallback" \in DOMAIN c.devServer
        /\ c.devServer.historyApiFallback = TRUE
        /\ CssUse(c)[1].loader = "style-loader"

\* A development config was resolved after a production one was retained.
C6_Witness ==
    /\ cur # <<>> /\ cur[1].config.mode = "development"
    /\ kept # <<>> /\ kept[1].config.mode = "production"
    /\ Populated(cur[1].config.devServer)

---------------------------------------------------------------------------
\* C7. In a production config every loader step that carries a source-map
\* option has it false; in a development config every such step has it true.
C7_SourceMaps ==
    (cur # <<>> /\ cur[1].config.mode \in {"production", "development"}) =>
        LET c == cur[1].config IN
        \A p \in SourceMapSteps(c) :
            SourceMapOf(c, p) = (c.mode = "development")

\* A production config and a development one, each with three loader steps
\* that carry the option and one (postcss-loader) that does not.
C7_Witness ==
    /\ cur # <<>> /\ cur[1].config.mode = "production"
    /\ kept # <<>> /\ kept[1].config.mode = "development"
    /\ Cardinality(SourceMapSteps(cur[1].config)) = 3
    /\ Cardinality(SourceMapSteps(kept[1].config)) = 3
    /\ Len(CssUse(cur[1].config)) = 4

---------------------------------------------------------------------------
\* The selections the mode decides, read off a config.
Branches(c) ==
    [cssHead |-> CssUse(c)[1].loader,
     sourceMaps |-> [p \in SourceMapSteps(c) |-> SourceMapOf(c, p)],
     optimization |-> c.optimization,
     devServer |-> c.devServer,
     devtool |-> c.devtool]

\* C8. An unrecognized mode is treated as 'development' in every branch: the
\* CSS loader head, the source-map flags, the optimization block, the
\* devServer block and devtool of its config equal those of a development
\* config.
C8_UnrecognizedAsDevelopment ==
    (/\ kept # <<>> /\ cur # <<>>
     /\ \/ Unrecognized(kept[1].config.mode) /\ cur[1].config.mode = "development"
        \/ kept[1].config.mode = "development" /\ Unrecognized(cur[1].config.mode)) =>
        Branches(kept[1].config) = Branches(cur[1].config)

\* A 'staging' config was retained and a development one resolved after it.
C8_Witness ==
    /\ kept # <<>> /\ cur # <<>> /\ kept[1].root # cur[1].root
    /\ kept[1].config.mode = "staging"
    /\ cur[1].config.mode = "development"
    /\ CssUse(kept[1].config)[1].loader = "style-loader"

---------------------------------------------------------------------------
\* C9. Idempotence: a call with the mode and argv of a retained earlier call,
\* made under the environment variables and the source tree of that earlier
\* call, returns a config structurally equal to the retained one, whatever
\* was resolved in between.
C9_Idempotent ==
    [][\A env \in Modes, argv \in Argvs :
         (/\ ResolveWith(env, argv, FALSE)
          /\ kept # <<>>
          /\ kept[1].config.mode = env
          /\ kept[1].argv = argv
          /\ kept[1].env = processEnv
          /\ kept[1].fs = fs)
         => cur'[1].config = kept[1].config]_vars

\* A second config of the mode of a retained one, held next to it under the
\* retained call's environment and source tree, both of which differ from
\* those of the module's load.
C9_Witness ==
    /\ kept # <<>> /\ cur # <<>> /\ kept[1].root # cur[1].root
    /\ cur[1].config.mode = kept[1].config.mode
    /\ kept[1].env = processEnv /\ kept[1].fs = fs
    /\ atLoad[1].env # processEnv /\ atLoad[1].fs # fs
    /\ cur[1].config = kept[1].config

---------------------------------------------------------------------------
=============================================================================
